---- MODULE Spec2Model ----
(***************************************************************************)
(* Realty Companion Pro - Chicago Edition: the decision side of engine.py. *)
(*                                                                         *)
(* Percentages that engine.py rounds to two decimals (ROI, P(loss), CVaR,  *)
(* the decision bars) are integers in units of 0.005 percentage points, so *)
(* that the median of two such values is again an integer: Pct(850) is     *)
(* 8.50.  Scores of the grid search are exact rationals kept as numerators *)
(* over one common denominator; IEEE rounding of the floats is not         *)
(* modelled.  A float NaN (the mean of an empty selection) is modelled by  *)
(* an explicit nan flag, and every comparison with it is false.            *)
(***************************************************************************)
EXTENDS Integers, Sequences, FiniteSets, TLC

VARIABLES
  pc,            \* position of the call being executed
  ret,           \* autotune_bars: where its caller continues
  cons_df,       \* autotune_bars: the Engineer batch (rows of simulate_once)
  opp_df,        \* autotune_bars: the Consumer batch
  defaults,      \* autotune_bars: the default bar triple passed in
  ri, pi, ci,    \* autotune_bars: positions of the three nested loops
  visited,       \* autotune_bars: number of candidates scored so far
  best,          \* autotune_bars: running best triple
  best_score,    \* autotune_bars: running best score (numerator)
  eng, con,      \* run_all: the two simulate_once results
  bars,          \* run_all: the bars argument (None or <<triple>>)
  autotune,      \* run_all: the autotune argument
  both,          \* run_all: the concatenated result rows
  sums,          \* run_all: the summary object
  opps,          \* run_all: the opportunity table
  cache,         \* contents of the file at save_path
  writes,        \* number of writes to save_path attempted
  write_failed,  \* whether a write to save_path raised
  call,          \* decide / headwind_index / cvar5_empirical: the arguments
  result         \* decide / headwind_index / cvar5_empirical: the outcome

tuner_vars == <<ret, cons_df, opp_df, defaults, ri, pi, ci, visited, best, best_score>>
run_vars   == <<eng, con, bars, autotune, both, sums, opps, cache, writes, write_failed>>
fn_vars    == <<call, result>>

vars == <<pc, tuner_vars, run_vars, fn_vars>>

\* None, and a variable not assigned yet
None == <<>>

----------------------------------------------------------------------------
(* Units and bounds *)

\* hundredths of a percentage point -> model units (0.005 percentage points)
Pct(h) == 2 * h

\* longest batch handed to autotune_bars
MaxRows == 1

\* np.arange(start, stop, step), arguments in hundredths
arange(start, stop, step) ==
  [n \in 1..((stop - start + step - 1) \div step) |-> Pct(start + step * (n - 1))]

cand_r == arange(600, 1250, 50)
cand_p == arange(1000, 2550, 50)
\* a grid whose stop value is included reaches -5.0
cand_c_inclusive == arange(-2000, -400, 100)

cand_c == arange(-2000, -500, 100)

DefaultBars == [risk_adj |-> Pct(850), ploss |-> Pct(1500), cvar |-> Pct(-1000)]

----------------------------------------------------------------------------
(* autotune_bars *)

\* the three-condition test of go_rate, decide and run_all
Passes(row, b) ==
  /\ row.risk_adj_roi >= b.risk_adj
  /\ row.ploss <= b.ploss
  /\ row.cvar5 > b.cvar

\* go_rate: the mean of the pass flags, k passing rows out of n; n = 0 is NaN
go_rate(df, b) ==
  [k |-> Cardinality({x \in 1..Len(df) : Passes(df[x], b)}), n |-> Len(df)]

isnan(g) == g.n = 0

Abs(x) == IF x < 0 THEN -x ELSE x
Min(a, b) == IF a < b THEN a ELSE b
Max(a, b) == IF a > b THEN a ELSE b

\* common denominator of the scores of one call (with an empty batch every
\* score is NaN and only the sentinel is kept over it)
ScoreDen(cdf, odf) == 2000 * Max(1, Len(cdf)) * Max(1, Len(odf))

\* the score without its safety term
score_no_safety(cdf, odf, b) ==
  LET ge == go_rate(cdf, b)
      gc == go_rate(odf, b)
  IN IF isnan(ge) \/ isnan(gc)
     THEN [nan |-> TRUE, num |-> 0]
     ELSE LET pen    == IF 100 * ge.k <= 15 * ge.n
                        THEN 0
                        ELSE -100 * gc.n * (100 * ge.k - 15 * ge.n)
              reward == 20 * ge.n * (100 * gc.n - Abs(100 * gc.k - 33 * gc.n))
          IN [nan |-> FALSE, num |-> reward + pen]

\* score = reward + safety + pen, as a numerator over ScoreDen: lines 78-82
score(cdf, odf, b) ==
  LET ge == go_rate(cdf, b)
      gc == go_rate(odf, b)
  IN IF isnan(ge) \/ isnan(gc)
     THEN [nan |-> TRUE, num |-> 0]
     ELSE LET pen    == IF 100 * ge.k <= 15 * ge.n
                        THEN 0
                        ELSE -100 * gc.n * (100 * ge.k - 15 * ge.n)
              reward == 20 * ge.n * (100 * gc.n - Abs(100 * gc.k - 33 * gc.n))
              safety == (b.cvar + Pct(2000)) * ge.n * gc.n
          IN [nan |-> FALSE, num |-> reward + safety + pen]

\* best_score = -1
Sentinel(cdf, odf) == -1 * ScoreDen(cdf, odf)

\* a comparison written "not (score <= best_score)" lets a NaN score through
BetterNotLe(s, bs) == s.nan \/ s.num > bs

\* a non-strict comparison lets a later candidate of equal score replace the best
BetterOrEqual(s, bs) == ~s.nan /\ s.num >= bs

\* score > best_score: line 83
Better(s, bs) == ~s.nan /\ s.num > bs

Candidate(r, p, c) == [risk_adj |-> cand_r[r], ploss |-> cand_p[p], cvar |-> cand_c[c]]

\* the statistics of a simulate_once row that the decision side reads:
\* 'Risk-Adj ROI P50%', 'P(loss)%', 'CVaR5_ROI%'
Stats(r, p, c) == [risk_adj_roi |-> Pct(r), ploss |-> Pct(p), cvar5 |-> Pct(c)]

\* outcomes of the Monte Carlo simulation drawn for a deal: one that passes
\* every candidate, one that passes up to risk_adj 8.5, one that passes up to
\* risk_adj 10.0 from ploss 12.0 on with cvar at most -7.0
SimStats == { Stats(1250, 500, -500), Stats(850, 500, -500), Stats(1000, 1200, -650) }

Row(region, st) ==
  [region_ring |-> region, risk_adj_roi |-> st.risk_adj_roi,
   ploss |-> st.ploss, cvar5 |-> st.cvar5]

TuneRows == { Row("Urban Core", st) : st \in SimStats }

SeqsUpTo(S, n) == UNION { [1..m -> S] : m \in 0..n }

TuneDefaults ==
  { DefaultBars,
    [risk_adj |-> Pct(725), ploss |-> Pct(1810), cvar |-> Pct(-550)] }

\* autotune_bars is entered: lines 69-73
TuneEnter(cdf, odf, d, continue) ==
  /\ cons_df' = cdf /\ opp_df' = odf /\ defaults' = d
  /\ best' = d
  /\ best_score' = Sentinel(cdf, odf)
  /\ ri' = 1 /\ pi' = 1 /\ ci' = 1
  /\ visited' = 0
  /\ ret' = continue
  /\ pc' = "search"

\* a direct call of autotune_bars
TuneCall ==
  /\ pc = "idle"
  /\ \E cdf \in SeqsUpTo(TuneRows, MaxRows), odf \in SeqsUpTo(TuneRows, MaxRows),
        d \in TuneDefaults :
       TuneEnter(cdf, odf, d, "returned")
  /\ UNCHANGED <<run_vars, fn_vars>>

\* one iteration of the innermost loop: lines 77-84
TuneStep ==
  /\ pc = "search"
  /\ ri <= Len(cand_r)
  /\ LET b == Candidate(ri, pi, ci)
         s == score(cons_df, opp_df, b)
     IN IF Better(s, best_score)
        THEN best' = b /\ best_score' = s.num
        ELSE UNCHANGED <<best, best_score>>
  /\ visited' = visited + 1
  /\ IF ci < Len(cand_c)
     THEN ci' = ci + 1 /\ UNCHANGED <<ri, pi>>
     ELSE /\ ci' = 1
          /\ IF pi < Len(cand_p)
             THEN pi' = pi + 1 /\ UNCHANGED ri
             ELSE pi' = 1 /\ ri' = ri + 1
  /\ UNCHANGED <<pc, ret, cons_df, opp_df, defaults, run_vars, fn_vars>>

\* return best: line 85
TuneReturn ==
  /\ pc = "search"
  /\ ri > Len(cand_r)
  /\ pc' = ret
  /\ UNCHANGED <<tuner_vars, run_vars, fn_vars>>

\* nothing has been called yet
Idle ==
  /\ pc = "idle"
  /\ ret = "none"
  /\ cons_df = <<>> /\ opp_df = <<>>
  /\ defaults = DefaultBars
  /\ ri = 1 /\ pi = 1 /\ ci = 1
  /\ visited = 0
  /\ best = DefaultBars
  /\ best_score = 0
  /\ eng = <<>> /\ con = <<>>
  /\ bars = None
  /\ autotune = FALSE
  /\ both = <<>>
  /\ sums = None
  /\ opps = <<>>
  /\ cache = [state |-> "absent", bars |-> None]
  /\ writes = 0
  /\ write_failed = FALSE
  /\ call = None
  /\ result = None

InitTune == Idle

NextTune == TuneCall \/ TuneStep \/ TuneReturn

SpecTune == InitTune /\ [][NextTune]_vars

----------------------------------------------------------------------------
(* decide *)

\* xs with x inserted after the elements that are not greater
RECURSIVE InsertAsc(_, _)
InsertAsc(x, xs) ==
  IF xs = <<>> THEN <<x>>
  ELSE IF x < Head(xs) THEN <<x>> \o xs
       ELSE <<Head(xs)>> \o InsertAsc(x, Tail(xs))

RECURSIVE SortAsc(_)
SortAsc(xs) == IF xs = <<>> THEN <<>> ELSE InsertAsc(Head(xs), SortAsc(Tail(xs)))

\* Series.median(): the middle value, or the mean of the two middle values
\* (exact here: the values are even multiples of the unit)
median(xs) ==
  LET n == Len(xs)
      srt == SortAsc(xs)
  IN IF n % 2 = 1 THEN srt[(n + 1) \div 2]
     ELSE (srt[n \div 2] + srt[n \div 2 + 1]) \div 2

Column(df, col) == [x \in 1..Len(df) |-> df[x][col]]

\* the medians compared with a non-strict test on CVaR5 as well
decide_cvar_inclusive(df, bars_arg) ==
  LET b == IF bars_arg = None THEN DefaultBars ELSE bars_arg[1]
      r == median(Column(df, "risk_adj_roi"))
      p == median(Column(df, "ploss"))
      c == median(Column(df, "cvar5"))
  IN [RiskAdj |-> r, Ploss |-> p, CVaR5 |-> c,
      Status |-> IF r >= b.risk_adj /\ p <= b.ploss /\ c >= b.cvar
                 THEN "GO" ELSE "CAUTION"]

\* decide: lines 64-67; bars_arg is None or <<triple>>, and line 65 puts the
\* default triple in the place of None
decide(df, bars_arg) ==
  LET b == IF bars_arg = None THEN DefaultBars ELSE bars_arg[1]
      r == median(Column(df, "risk_adj_roi"))
      p == median(Column(df, "ploss"))
      c == median(Column(df, "cvar5"))
  IN [RiskAdj |-> r, Ploss |-> p, CVaR5 |-> c,
      Status |-> IF r >= b.risk_adj /\ p <= b.ploss /\ c > b.cvar
                 THEN "GO" ELSE "CAUTION"]

----------------------------------------------------------------------------
(* run_all *)

\* largest number of deals in the frame handed to run_all
MaxDeals == 1

\* the rings of the deals handed to run_all (app.py offers three)
DealRings == {"Inner Collar", "Urban Core"}

\* Python's string order on the group keys and on the status
RingOrder   == <<"Inner Collar", "Outer Collar", "Urban Core">>
LensOrder   == <<"Consumer", "Engineer">>
StatusOrder == <<"CAUTION", "GO">>

StatusKey(st) == CHOOSE n \in 1..Len(StatusOrder) : StatusOrder[n] = st

\* a bars argument other than None
CallerBars == [risk_adj |-> Pct(1000), ploss |-> Pct(1200), cvar |-> Pct(-650)]

WithLens(df, lens) ==
  [x \in 1..Len(df) |->
     [region_ring |-> df[x].region_ring, lens |-> lens,
      risk_adj_roi |-> df[x].risk_adj_roi, ploss |-> df[x].ploss, cvar5 |-> df[x].cvar5]]

\* a with-statement guard that ignores the autotune argument
TuningRequestedAlways(flag) == TRUE

\* if autotune: line 94
TuningRequested(flag) == flag

\* an except clause that re-raises
AfterWriteErrorRaise == "raised"

\* except Exception: pass, lines 100-101: the run goes on
AfterWriteError == "rank"

\* lines 88-94: both simulations, the first summary, the branch on autotune
RunCall ==
  /\ pc = "idle"
  /\ \E n \in 1..MaxDeals :
       \E rings \in [1..n -> DealRings], es \in [1..n -> SimStats], cs \in [1..n -> SimStats],
          b \in {None, <<CallerBars>>}, flag \in BOOLEAN :
         LET e == [x \in 1..n |-> Row(rings[x], es[x])]
             c == [x \in 1..n |-> Row(rings[x], cs[x])]
             active == IF b = None THEN DefaultBars ELSE b[1]
         IN /\ eng' = e /\ con' = c
            /\ bars' = b
            /\ autotune' = flag
            /\ both' = WithLens(e, "Engineer") \o WithLens(c, "Consumer")
            /\ sums' = [Engineer |-> decide(e, <<active>>),
                        Consumer |-> decide(c, <<active>>),
                        bars |-> active]
            /\ pc' = IF TuningRequested(flag) THEN "tune" ELSE "rank"
  /\ UNCHANGED <<tuner_vars, opps, cache, writes, write_failed, fn_vars>>

\* line 95: the call of autotune_bars
RunTune ==
  /\ pc = "tune"
  /\ TuneEnter(eng, con, DefaultBars, "tuned")
  /\ UNCHANGED <<run_vars, fn_vars>>

\* line 96: the summary is rebuilt with the tuned bars
RunTuned ==
  /\ pc = "tuned"
  /\ sums' = [Engineer |-> decide(eng, <<best>>), Consumer |-> decide(con, <<best>>),
              bars |-> best, defaults |-> DefaultBars]
  /\ pc' = "save"
  /\ UNCHANGED <<tuner_vars, eng, con, bars, autotune, both, opps, cache, writes,
                 write_failed, fn_vars>>

\* lines 97-99: the directory exists or is made, the file is written
SaveOk ==
  /\ pc = "save"
  /\ cache' = [state |-> "written", bars |-> <<sums.bars>>]
  /\ writes' = writes + 1
  /\ pc' = "rank"
  /\ UNCHANGED <<tuner_vars, eng, con, bars, autotune, both, sums, opps, write_failed, fn_vars>>

\* lines 97-101: mkdir or write_text raises; the file is untouched or truncated
SaveFail ==
  /\ pc = "save"
  /\ \E left \in {cache, [state |-> "truncated", bars |-> None]} : cache' = left
  /\ writes' = writes + 1
  /\ write_failed' = TRUE
  /\ pc' = AfterWriteError
  /\ UNCHANGED <<tuner_vars, eng, con, bars, autotune, both, sums, opps, fn_vars>>

\* the rows of one (region_ring, lens) group, in frame order
Group(rows, ring, lens) ==
  SelectSeq(rows, LAMBDA r : r.region_ring = ring /\ r.lens = lens)

\* lines 104-107: one opportunity row from a group's medians
OppRow(g, b) ==
  LET m == [risk_adj_roi |-> median(Column(g, "risk_adj_roi")),
            ploss |-> median(Column(g, "ploss")),
            cvar5 |-> median(Column(g, "cvar5"))]
      status == IF Passes(m, b) THEN "GO" ELSE "CAUTION"
  IN [region |-> g[1].region_ring, lens |-> g[1].lens,
      RiskAdj |-> m.risk_adj_roi, Ploss |-> m.ploss, CVaR5 |-> m.cvar5,
      status |-> status,
      nudge |-> IF status = "GO" THEN "Pursue comps & financing quotes now"
                ELSE "Renegotiate price 5-10% or trim rehab 10-15%"]

\* lines 102-107: groupby yields the groups in key order
RECURSIVE OppRows(_, _, _, _)
OppRows(rows, b, g, l) ==
  IF g > Len(RingOrder) THEN <<>>
  ELSE IF l > Len(LensOrder) THEN OppRows(rows, b, g + 1, 1)
  ELSE LET grp == Group(rows, RingOrder[g], LensOrder[l])
       IN (IF grp = <<>> THEN <<>> ELSE <<OppRow(grp, b)>>) \o OppRows(rows, b, g, l + 1)

\* a goes before b under sort_values(['status','RiskAdj%'], ascending=[True,False])
SortsBefore(a, b) ==
  \/ StatusKey(a.status) < StatusKey(b.status)
  \/ StatusKey(a.status) = StatusKey(b.status) /\ a.RiskAdj > b.RiskAdj

RECURSIVE InsertOpp(_, _)
InsertOpp(x, xs) ==
  IF xs = <<>> THEN <<x>>
  ELSE IF SortsBefore(x, Head(xs)) THEN <<x>> \o xs
       ELSE <<Head(xs)>> \o InsertOpp(x, Tail(xs))

\* sort_values with several keys is stable: rows are inserted left to right
RECURSIVE SortOpps(_, _)
SortOpps(xs, acc) ==
  IF xs = <<>> THEN acc ELSE SortOpps(Tail(xs), InsertOpp(Head(xs), acc))

\* lines 102-109: group, classify, sort, return
Rank ==
  /\ pc = "rank"
  /\ opps' = SortOpps(OppRows(both, sums.bars, 1, 1), <<>>)
  /\ pc' = "done"
  /\ UNCHANGED <<tuner_vars, eng, con, bars, autotune, both, sums, cache, writes,
                 write_failed, fn_vars>>

Init == Idle

Next ==
  \/ RunCall
  \/ RunTune
  \/ TuneStep
  \/ TuneReturn
  \/ RunTuned
  \/ SaveOk
  \/ SaveFail
  \/ Rank

Spec == Init /\ [][Next]_vars

----------------------------------------------------------------------------
(* decide, called on its own *)

\* longest batch handed to decide
MaxBatch == 2

\* rows whose statistics sit on and next to the default bars
DecideStats ==
  { Stats(r, p, c) : r \in {840, 850}, p \in {1500, 1510}, c \in {-1000, -990} }

\* bars arguments: None, and two triples (the second sits on medians of two rows)
DecideBars ==
  { None, <<CallerBars>>,
    <<[risk_adj |-> Pct(845), ploss |-> Pct(1505), cvar |-> Pct(-995)]>> }

\* decide(df, bars): lines 64-67
DecideCall ==
  /\ pc = "idle"
  /\ \E n \in 1..MaxBatch :
       \E sts \in [1..n -> DecideStats], b \in DecideBars :
         LET df == [x \in 1..n |-> Row("Urban Core", sts[x])]
         IN /\ call' = [fn |-> "decide", df |-> df, bars |-> b]
            /\ result' = decide(df, b)
  /\ pc' = "done"
  /\ UNCHANGED <<tuner_vars, run_vars>>

NextDecide == DecideCall

SpecDecide == Idle /\ [][NextDecide]_vars

----------------------------------------------------------------------------
(* headwind_index *)

\* largest number of rings in the profile table
MaxRings == 2

\* the ring names of app.py, and one the table never holds
RingNames == {"Urban Core", "Inner Collar", "Outer Collar"}
AskedRings == RingNames \cup {"Exurbs"}

\* a ring's profile: inventory_months in tenths of a month, dom_days in days,
\* list_sale_ratio in hundredths, tax_rate in ten-thousandths,
\* permit_delay_days in days
Profile(inv, dom, ls, tax, permit) ==
  [inventory_months |-> inv, dom_days |-> dom, list_sale_ratio |-> ls,
   tax_rate |-> tax, permit_delay_days |-> permit]

Profiles ==
  { Profile(30, 45, 97, 210, 45),
    Profile(75, 70, 95, 300, 90),
    Profile(20, 30, 99, 180, 20) }

\* regional_map['rings']: a dict, kept as its entries in insertion order
IsDict(d) == \A x, y \in 1..Len(d) : d[x].key = d[y].key => x = y

RingTables ==
  { d \in SeqsUpTo([key : RingNames, profile : Profiles], MaxRings) : IsDict(d) }

\* lines 16-19: the score of one profile, in 1/300 of a point
\* (30*inv/6 + 25*dom/60 + 20*(1-ls) + 15*tax/0.025 + 10*permit/60, clipped)
friction(r) ==
  LET inv_n    == 150 * Min(r.inventory_months, 60)
      dom_n    == 125 * Min(r.dom_days, 60)
      gap      == 60 * (100 - r.list_sale_ratio)
      tax_n    == 18 * Min(r.tax_rate, 250)
      permit_n == 50 * Min(r.permit_delay_days, 60)
  IN Max(0, Min(inv_n + dom_n + gap + tax_n + permit_n, 30000))

Keys(d) == { d[x].key : x \in 1..Len(d) }

Lookup(d, k) == d[CHOOSE x \in 1..Len(d) : d[x].key = k].profile

\* a fallback that takes the entry added last
rings_get_last(d, region) ==
  IF d = <<>> THEN [raised |-> TRUE, profile |-> Profile(0, 0, 0, 0, 0)]
  ELSE [raised |-> FALSE,
        profile |-> IF region \in Keys(d) THEN Lookup(d, region) ELSE d[Len(d)].profile]

\* line 15: rings.get(region, next(iter(rings.values()))); the default is
\* evaluated first and raises StopIteration on an empty dict
rings_get(d, region) ==
  IF d = <<>> THEN [raised |-> TRUE, profile |-> Profile(0, 0, 0, 0, 0)]
  ELSE [raised |-> FALSE,
        profile |-> IF region \in Keys(d) THEN Lookup(d, region) ELSE d[1].profile]

\* headwind_index: lines 14-19
headwind_index(region, rings) ==
  LET r == rings_get(rings, region)
  IN IF r.raised THEN [raised |-> TRUE, hi |-> 0]
     ELSE [raised |-> FALSE, hi |-> friction(r.profile)]

HeadwindCall ==
  /\ pc = "idle"
  /\ \E region \in AskedRings, rings \in RingTables :
       /\ call' = [fn |-> "headwind_index", region |-> region, rings |-> rings]
       /\ result' = headwind_index(region, rings)
  /\ pc' = "done"
  /\ UNCHANGED <<tuner_vars, run_vars>>

NextHeadwind == HeadwindCall

SpecHeadwind == Idle /\ [][NextHeadwind]_vars

----------------------------------------------------------------------------
(* cvar5_empirical and the tail statistics of simulate_once *)

\* largest number of freely chosen trials
MaxTrials == 3

\* trial ROIs, in units of 0.0001 (0.01 percentage points)
RoiVals == {-35, -12, -2, 4, 18}

\* further trials, all at one ROI above the free ones, that bring the trial
\* count to where the 5th percentile leaves the lowest trial
PadSizes == {0, 19, 38}
PadRoi == 25

\* np.percentile(roi, q), linear interpolation, as a fraction over 100
percentile(roi, q) ==
  LET srt == SortAsc(roi)
      pos == (Len(roi) - 1) * q
      lo  == pos \div 100 + 1
      fr  == pos % 100
  IN [num |-> IF fr = 0 THEN 100 * srt[lo]
              ELSE 100 * srt[lo] + (srt[lo + 1] - srt[lo]) * fr,
      den |-> 100]

RECURSIVE SeqSum(_)
SeqSum(xs) == IF xs = <<>> THEN 0 ELSE Head(xs) + SeqSum(Tail(xs))

\* a tail that leaves the percentile itself out
tail_below(roi, p5) == SelectSeq(roi, LAMBDA x : x * p5.den < p5.num)

\* roi[roi<=p5]: line 28
tail_of(roi, p5) == SelectSeq(roi, LAMBDA x : x * p5.den <= p5.num)

\* cvar5_empirical: lines 26-29
cvar5_empirical(roi) ==
  LET p5 == percentile(roi, 5)
      tail == tail_of(roi, p5)
  IN IF Len(tail) > 0 THEN [num |-> SeqSum(tail), den |-> Len(tail)] ELSE p5

\* round(100*x, 2) of the fraction x: the nearest 0.01, ties to even
round2(x) ==
  LET q == x.num \div x.den
      r == x.num - q * x.den
  IN IF 2 * r < x.den THEN q
     ELSE IF 2 * r > x.den THEN q + 1
     ELSE IF q % 2 = 0 THEN q ELSE q + 1

\* simulate_once, lines 56-60, for one deal's trial ROIs
TailCall ==
  /\ pc = "idle"
  /\ \E n \in 1..MaxTrials :
       \E free \in [1..n -> RoiVals], pad \in PadSizes :
         LET roi   == free \o [x \in 1..pad |-> PadRoi]
             p5    == percentile(roi, 5)
             cvar5 == cvar5_empirical(roi)
         IN /\ call' = [fn |-> "cvar5_empirical", roi |-> roi]
            /\ result' = [p5 |-> p5, cvar5 |-> cvar5, tail |-> tail_of(roi, p5),
                          VaR5 |-> round2(p5), CVaR5 |-> round2(cvar5)]
  /\ pc' = "done"
  /\ UNCHANGED <<tuner_vars, run_vars>>

NextTail == TailCall

SpecTail == Idle /\ [][NextTail]_vars

----------------------------------------------------------------------------
(* Claims about autotune_bars *)

\* the grids as the specification declares them
GridR == { Pct(600 + 50 * n) : n \in 0..12 }
GridP == { Pct(1000 + 50 * n) : n \in 0..30 }
GridC == { Pct(-2000 + 100 * n) : n \in 0..14 }

InGrid(b) == b.risk_adj \in GridR /\ b.ploss \in GridP /\ b.cvar \in GridC

Grid == [risk_adj : GridR, ploss : GridP, cvar : GridC]

\* a is enumerated before b: risk_adj outer, ploss middle, cvar inner
Before(a, b) ==
  \/ a.risk_adj < b.risk_adj
  \/ a.risk_adj = b.risk_adj /\ a.ploss < b.ploss
  \/ a.risk_adj = b.risk_adj /\ a.ploss = b.ploss /\ a.cvar < b.cvar

Returned == pc = "returned"

\* no candidate was accepted: best is still the object passed in as defaults
ReturnsDefaults == best_score = Sentinel(cons_df, opp_df)

\* C2 as stated: the triple returned by autotune_bars always lies on the
\* three declared grids, whatever the batches and the defaults passed in.
C2_AlwaysInGrid == Returned => InGrid(best)

\* C2 amended: the triple returned by autotune_bars is the default triple
\* passed in when no candidate scored above -1, and otherwise lies on the
\* three declared grids.
C2_InGridOrDefaults ==
  Returned => IF ReturnsDefaults THEN best = defaults ELSE InGrid(best)

\* a call with off-grid defaults that nevertheless returns a grid candidate
C2_Witness == Returned /\ ~InGrid(defaults) /\ ~ReturnsDefaults /\ InGrid(best)

\* C8: the search visits the full Cartesian product with risk_adj as outer,
\* ploss as middle and cvar as inner loop, and a returned grid candidate scores
\* at least as high as every candidate and strictly higher than every
\* candidate enumerated before it.
C8_ExhaustiveFirstMax ==
  /\ pc = "search" =>
        visited = ((ri - 1) * Cardinality(GridP) + (pi - 1)) * Cardinality(GridC) + (ci - 1)
  /\ Returned => visited = Cardinality(Grid)
  /\ (Returned /\ ~ReturnsDefaults) =>
        /\ best \in Grid
        /\ score(cons_df, opp_df, best) = [nan |-> FALSE, num |-> best_score]
        /\ \A b \in Grid :
             LET s == score(cons_df, opp_df, b)
             IN /\ ~s.nan
                /\ s.num <= best_score
                /\ Before(b, best) => s.num < best_score

\* a returned candidate that a later candidate ties and an earlier one does not
C8_Witness ==
  /\ Returned /\ ~ReturnsDefaults
  /\ \E b \in Grid : Before(best, b) /\ score(cons_df, opp_df, b).num = best_score
  /\ \E b \in Grid : Before(b, best)

EngPassesEverywhere == \A b \in Grid : Passes(cons_df[1], b)

\* C10: with exactly one deal in each batch, autotune_bars returns the
\* defaults exactly when the Engineer deal passes at every candidate, and
\* otherwise a grid candidate whose cvar is -6.0, never one in -20.0..-7.0.
C10_SingleDealStrictestCvar ==
  (Returned /\ Len(cons_df) = 1 /\ Len(opp_df) = 1) =>
    /\ ReturnsDefaults <=> EngPassesEverywhere
    /\ ReturnsDefaults => best = defaults
    /\ ~ReturnsDefaults => (InGrid(best) /\ best.cvar = Pct(-600))

\* a single-deal call whose Consumer deal passes at the returned candidate
C10_Witness ==
  /\ Returned /\ Len(cons_df) = 1 /\ Len(opp_df) = 1
  /\ ~ReturnsDefaults /\ best.cvar = Pct(-600)
  /\ Passes(opp_df[1], best) /\ ~Passes(cons_df[1], best)

----------------------------------------------------------------------------
(* Claims about run_all *)

ActiveBars == IF bars = None THEN DefaultBars ELSE bars[1]

\* C1: in the opportunity table every GO row comes before every CAUTION
\* row, and rows of equal status are in non-increasing order of RiskAdj%.
C1_GoFirstThenRiskAdjDescending ==
  pc = "done" =>
    \A x, y \in 1..Len(opps) :
      x < y =>
        /\ ~(opps[x].status = "CAUTION" /\ opps[y].status = "GO")
        /\ opps[x].status = opps[y].status => opps[x].RiskAdj >= opps[y].RiskAdj

\* C3: with autotune disabled the summary carries the caller's bars (or the
\* default triple), the grid search is never entered and no write to the
\* cache path is attempted at any point of the run.
C3_NoTuningNoWrite ==
  (pc # "idle" /\ ~autotune) =>
    /\ pc \in {"rank", "done"}
    /\ ret = "none" /\ visited = 0
    /\ writes = 0 /\ ~write_failed /\ cache.state = "absent"
    /\ sums.bars = ActiveBars
    /\ DOMAIN sums = {"Engineer", "Consumer", "bars"}
    /\ sums.Engineer = decide(eng, <<ActiveBars>>)
    /\ sums.Consumer = decide(con, <<ActiveBars>>)

\* a finished run without autotune whose summary carries the caller's bars
C3_Witness ==
  /\ pc = "done" /\ ~autotune
  /\ bars # None /\ sums.bars = CallerBars /\ sums.bars # DefaultBars
  /\ Len(opps) = 2 * Len(eng)

\* C5: a failed cache write is never propagated, and the run returns the
\* result rows, the summary and the opportunity table that the tuned bars
\* determine, the same as when the write succeeds.
C5_WriteFailureKeepsResult ==
  /\ write_failed => pc \in {"rank", "done"}
  /\ (pc = "done" /\ autotune) =>
       /\ writes = 1
       /\ both = WithLens(eng, "Engineer") \o WithLens(con, "Consumer")
       /\ sums = [Engineer |-> decide(eng, <<best>>), Consumer |-> decide(con, <<best>>),
                  bars |-> best, defaults |-> DefaultBars]
       /\ opps = SortOpps(OppRows(both, best, 1, 1), <<>>)

\* a finished run whose cache write failed and left a truncated file
C5_Witness ==
  /\ pc = "done" /\ autotune /\ write_failed
  /\ cache.state = "truncated"
  /\ sums.bars = best /\ best # DefaultBars
  /\ Len(opps) = 2 * Len(eng)

----------------------------------------------------------------------------
(* Claims about decide *)

Smaller(xs, v) == Cardinality({x \in 1..Len(xs) : xs[x] < v})
NotGreater(xs, v) == Cardinality({x \in 1..Len(xs) : xs[x] <= v})

\* the k-th smallest value of xs
Kth(xs, k) ==
  CHOOSE v \in { xs[x] : x \in 1..Len(xs) } : Smaller(xs, v) < k /\ NotGreater(xs, v) >= k

\* twice the median of xs
TwiceMedian(xs) == Kth(xs, (Len(xs) + 1) \div 2) + Kth(xs, Len(xs) \div 2 + 1)

DecideArgBars == IF call.bars = None THEN DefaultBars ELSE call.bars[1]

RiskAdjMedian2 == TwiceMedian(Column(call.df, "risk_adj_roi"))
PlossMedian2   == TwiceMedian(Column(call.df, "ploss"))
CVaR5Median2   == TwiceMedian(Column(call.df, "cvar5"))

\* C4: decide returns GO exactly when the median risk-adjusted ROI is at
\* least bars.risk_adj, the median loss probability at most bars.ploss and
\* the median CVaR5 above bars.cvar, and CAUTION otherwise; equality passes
\* on risk_adj and on ploss and fails on cvar.
C4_DecideThreeConditions ==
  pc = "done" =>
    LET b == DecideArgBars
    IN /\ result.Status \in {"GO", "CAUTION"}
       /\ result.Status = "GO" <=>
            /\ RiskAdjMedian2 >= 2 * b.risk_adj
            /\ PlossMedian2 <= 2 * b.ploss
            /\ CVaR5Median2 > 2 * b.cvar
       /\ CVaR5Median2 = 2 * b.cvar => result.Status = "CAUTION"
       /\ (/\ RiskAdjMedian2 = 2 * b.risk_adj
           /\ PlossMedian2 = 2 * b.ploss
           /\ CVaR5Median2 > 2 * b.cvar) => result.Status = "GO"

\* two rows whose medians sit exactly on the risk_adj and ploss bars: GO
C4_Witness ==
  /\ pc = "done" /\ Len(call.df) = 2
  /\ call.df[1] # call.df[2]
  /\ RiskAdjMedian2 = 2 * DecideArgBars.risk_adj
  /\ PlossMedian2 = 2 * DecideArgBars.ploss
  /\ result.Status = "GO"

----------------------------------------------------------------------------
(* Claims about headwind_index *)

\* C6: asked for a region that is no key of a non-empty table,
\* headwind_index does not raise and returns the score of the table's first
\* entry, whatever the absent region is.
C6_AbsentRegionUsesFirstEntry ==
  (pc = "done" /\ call.rings # <<>> /\ call.region \notin Keys(call.rings)) =>
    /\ ~result.raised
    /\ result.hi = friction(call.rings[1].profile)

\* an absent region, a table of two entries with different scores
C6_Witness ==
  /\ pc = "done" /\ Len(call.rings) = 2
  /\ call.region \notin Keys(call.rings)
  /\ ~result.raised
  /\ result.hi = friction(call.rings[1].profile)
  /\ result.hi # friction(call.rings[2].profile)

----------------------------------------------------------------------------
(* Claims about the tail statistics *)

\* C7: for a non-empty trial set the trials at or below the 5th percentile
\* are never none, their mean (CVaR5) is at most the 5th percentile (VaR5),
\* and so are the two values after rounding to 2 decimals.
C7_CVaRAtMostVaR ==
  pc = "done" =>
    /\ Len(result.tail) >= 1
    /\ result.cvar5.num * result.p5.den <= result.p5.num * result.cvar5.den
    /\ result.CVaR5 <= result.VaR5

\* a tail of several different trials whose mean rounds below the percentile
C7_Witness ==
  /\ pc = "done"
  /\ Len(result.tail) >= 2
  /\ \E x, y \in 1..Len(result.tail) : result.tail[x] # result.tail[y]
  /\ result.cvar5.den > 1
  /\ result.CVaR5 < result.VaR5

====
